---- MODULE Spec2Model ----
(***************************************************************************)
(* Model of cmd/generator/main.go of blksails/pkg-index: the generator     *)
(* that lists the organisation's repositories, keeps the Go repositories   *)
(* whose go.mod declares a module under pkg.blksails.net, writes one       *)
(* go-import page per import path below public/ and an index page at       *)
(* public/index.html.                                                      *)
(*                                                                         *)
(* Strings are TLA+ strings and every string function of the Go standard   *)
(* library the program calls (strings.TrimSpace, strings.Split,            *)
(* strings.HasPrefix, filepath.Clean, filepath.Dir, filepath.Join ...) is  *)
(* computed character by character.  The file system is a map from file    *)
(* paths to documents plus a set of directories; os.MkdirAll and os.Create *)
(* fail exactly when the directory structure makes them fail.              *)
(***************************************************************************)
EXTENDS Integers, Sequences, FiniteSets, TLC

(***************************************************************************)
(* Bounds of the model                                                     *)
(***************************************************************************)
MaxRepos == 2
MaxRuns == 2
MaxLines == 2

(***************************************************************************)
(* Program constants, main.go:16-20                                        *)
(***************************************************************************)
orgName == "blksails"
baseDomain == "pkg.blksails.net"
basePackage == "pkg.blksails.net"

(***************************************************************************)
(* package strings                                                         *)
(***************************************************************************)
CharAt(s, i) == SubSeq(s, i, i)

HasPrefix(s, p) == Len(s) >= Len(p) /\ SubSeq(s, 1, Len(p)) = p

HasSuffix(s, p) == Len(s) >= Len(p) /\ SubSeq(s, Len(s) - Len(p) + 1, Len(s)) = p

TrimPrefix(s, p) == IF HasPrefix(s, p) THEN SubSeq(s, Len(p) + 1, Len(s)) ELSE s

IsSpace(c) == c \in {" ", "\t", "\n", "\r", "\f"}

RECURSIVE TrimLeft(_)
TrimLeft(s) ==
  IF Len(s) > 0 /\ IsSpace(CharAt(s, 1)) THEN TrimLeft(Tail(s)) ELSE s

RECURSIVE TrimRight(_)
TrimRight(s) ==
  IF Len(s) > 0 /\ IsSpace(CharAt(s, Len(s)))
  THEN TrimRight(SubSeq(s, 1, Len(s) - 1))
  ELSE s

TrimSpace(s) == TrimRight(TrimLeft(s))

\* index of the first occurrence of the one-character separator, 0 if none
RECURSIVE IndexFrom(_, _, _)
IndexFrom(s, sep, i) ==
  IF i > Len(s) THEN 0
  ELSE IF CharAt(s, i) = sep THEN i
  ELSE IndexFrom(s, sep, i + 1)

Index(s, sep) == IndexFrom(s, sep, 1)

RECURSIVE LastIndexFrom(_, _, _)
LastIndexFrom(s, sep, i) ==
  IF i < 1 THEN 0
  ELSE IF CharAt(s, i) = sep THEN i
  ELSE LastIndexFrom(s, sep, i - 1)

LastIndex(s, sep) == LastIndexFrom(s, sep, Len(s))

\* strings.Split(s, sep) for a one-character separator
RECURSIVE Split(_, _)
Split(s, sep) ==
  LET i == Index(s, sep) IN
  IF i = 0 THEN <<s>>
  ELSE <<SubSeq(s, 1, i - 1)>> \o Split(SubSeq(s, i + 1, Len(s)), sep)

\* strings.Join(elems, sep)
RECURSIVE JoinStrings(_, _)
JoinStrings(elems, sep) ==
  IF Len(elems) = 0 THEN ""
  ELSE IF Len(elems) = 1 THEN elems[1]
  ELSE elems[1] \o sep \o JoinStrings(Tail(elems), sep)

(***************************************************************************)
(* package path/filepath (unix)                                            *)
(***************************************************************************)
\* the element stack of Clean: "." and empty elements dropped, ".." pops
RECURSIVE CleanElems(_, _, _)
CleanElems(elems, rooted, stack) ==
  IF Len(elems) = 0 THEN stack
  ELSE LET e == Head(elems)
           rest == Tail(elems)
       IN IF e = "" \/ e = "." THEN CleanElems(rest, rooted, stack)
          ELSE IF e = ".."
          THEN IF Len(stack) > 0 /\ stack[Len(stack)] # ".."
               THEN CleanElems(rest, rooted, SubSeq(stack, 1, Len(stack) - 1))
               ELSE IF rooted THEN CleanElems(rest, rooted, stack)
               ELSE CleanElems(rest, rooted, Append(stack, e))
          ELSE CleanElems(rest, rooted, Append(stack, e))

Clean(p) ==
  LET rooted == HasPrefix(p, "/")
      out == (IF rooted THEN "/" ELSE "")
               \o JoinStrings(CleanElems(Split(p, "/"), rooted, <<>>), "/")
  IN IF out = "" THEN "." ELSE out

Dir(p) == Clean(SubSeq(p, 1, LastIndex(p, "/")))

RECURSIVE DropEmptyHead(_)
DropEmptyHead(elems) ==
  IF Len(elems) > 0 /\ Head(elems) = "" THEN DropEmptyHead(Tail(elems)) ELSE elems

Join(elems) ==
  LET rest == DropEmptyHead(elems) IN
  IF Len(rest) = 0 THEN "" ELSE Clean(JoinStrings(rest, "/"))

(***************************************************************************)
(* parseModuleName, main.go:120-128                                        *)
(***************************************************************************)
\* variant: the prefix is looked for in the line as it stands, not trimmed
RECURSIVE parseLinesUntrimmed(_)
parseLinesUntrimmed(lines) ==
  IF Len(lines) = 0 THEN ""
  ELSE IF HasPrefix(Head(lines), "module ")
       THEN TrimSpace(TrimPrefix(Head(lines), "module "))
       ELSE parseLinesUntrimmed(Tail(lines))

RECURSIVE parseLines(_)
parseLines(lines) ==
  IF Len(lines) = 0 THEN ""
  ELSE IF HasPrefix(TrimSpace(Head(lines)), "module ")
       THEN TrimSpace(TrimPrefix(TrimSpace(Head(lines)), "module "))
       ELSE parseLines(Tail(lines))

parseModuleName(content) == parseLines(Split(content, "\n"))

(***************************************************************************)
(* The responses of the provider (GitHub API).  A response is built from   *)
(* its parts: a listed entry from the directory that holds it and its      *)
(* name, a go.mod text from the identifier it declares.  The parts are     *)
(* kept beside the response (inDir, declared) so that properties can speak *)
(* of them; the program reads only Type, Name, Path and text.              *)
(***************************************************************************)
Entry(type, dirElems, name) ==
  [Type |-> type, Name |-> name,
   Path |-> JoinStrings(Append(dirElems, name), "/"), inDir |-> dirElems]

RootOnlyListing ==
  <<Entry("file", <<>>, "go.mod"), Entry("file", <<>>, "main.go")>>

SubListing ==
  <<Entry("file", <<>>, "main.go"), Entry("dir", <<>>, "sub"),
    Entry("file", <<"sub">>, "util.go")>>

NestedListing ==
  <<Entry("file", <<"a">>, "x.go"), Entry("file", <<"a">>, "y.go"),
    Entry("file", <<"a", "b">>, "z.go"), Entry("dir", <<"gen">>, "v.go"),
    Entry("file", <<"docs">>, "notes.md"), Entry("file", <<"c">>, "go")>>

\* the outcome of GetContents(repo, ""): an error or a listing
ContentsFailed == [err |-> TRUE, contents |-> <<>>]
ContentsOK == {[err |-> FALSE, contents |-> l] :
                 l \in {RootOnlyListing, SubListing, NestedListing}}

\* the go.mod texts of the parser's own check: lines built from their parts
ModuleLine(indent, gap, ident, trail) ==
  [isModule |-> TRUE, ident |-> ident,
   raw |-> indent \o "module " \o gap \o ident \o trail]

OtherLine(raw) == [isModule |-> FALSE, ident |-> "", raw |-> raw]

LineShapes ==
  { ModuleLine(i, g, x, t) :
      i \in {"", " \t"}, g \in {"", " "},
      x \in {"pkg.blksails.net/foo", "other.org/m"}, t \in {"", " \r"} }
  \cup { OtherLine(r) :
          r \in {"", "go 1.20", "module", " module ", "modulefoo bar",
                 "// module x", "require module v1"} }

LineLists == UNION { [1..n -> LineShapes] : n \in 0..MaxLines }

TextOf(lines) == JoinStrings([k \in DOMAIN lines |-> lines[k].raw], "\n")

Manifest(indent, ident, trail) ==
  [err |-> FALSE, decodeErr |-> FALSE, declared |-> ident,
   text |-> "// m\n" \o indent \o "module " \o ident \o trail \o "\n\ngo 1.20\n"]

\* the outcomes of GetContents(repo, "go.mod") and of GetContent() that
\* main rejects
GoModMissing == [err |-> TRUE, decodeErr |-> FALSE, declared |-> "", text |-> ""]
GoModUndecodable == [err |-> FALSE, decodeErr |-> TRUE, declared |-> "", text |-> ""]
GoModNoModule ==
  [err |-> FALSE, decodeErr |-> FALSE, declared |-> "", text |-> "go 1.20\n"]
GoModEmpty == [err |-> FALSE, decodeErr |-> FALSE, declared |-> "", text |-> ""]
GoModElsewhere == Manifest("", "other.org/foo", "")

GoModRejected ==
  {GoModMissing, GoModUndecodable, GoModNoModule, GoModEmpty, GoModElsewhere}

Languages == {"Go", "go", "Python", ""}

\* what the provider answers for one repository, whatever its name
Listed(l) == [err |-> FALSE, contents |-> l]

Shapes ==
  { [Language |-> "Go", listing |-> l, gomod |-> Manifest("", "pkg.blksails.net/foo", "")] :
      l \in ContentsOK }
  \cup { [Language |-> "Go", listing |-> Listed(SubListing),
          gomod |-> Manifest(" \t", "pkg.blksails.net/bar", " \r")],
         [Language |-> "Go", listing |-> Listed(NestedListing),
          gomod |-> Manifest("", "pkg.blksails.net", "")],
         [Language |-> "Go", listing |-> Listed(SubListing),
          gomod |-> Manifest("", "pkg.blksails.net/", "")],
         [Language |-> "Go", listing |-> Listed(RootOnlyListing),
          gomod |-> Manifest("", "pkg.blksails.netfoo", "")] }
  \cup { [Language |-> "Go", listing |-> Listed(SubListing), gomod |-> m] :
          m \in GoModRejected }
  \cup { [Language |-> "Go", listing |-> ContentsFailed,
          gomod |-> Manifest("", "pkg.blksails.net/foo", "")] }
  \cup { [Language |-> g, listing |-> Listed(SubListing),
          gomod |-> Manifest("", "pkg.blksails.net/foo", "")] :
          g \in Languages \ {"Go"} }

RepoNames == <<"alpha", "beta", "gamma", "delta">>

Repository(i, shape) ==
  [Name |-> RepoNames[i],
   HTMLURL |-> "https://github.com/" \o orgName \o "/" \o RepoNames[i],
   Description |-> IF i = 1 THEN "" ELSE "package " \o RepoNames[i],
   Language |-> shape.Language,
   listing |-> shape.listing,
   gomod |-> shape.gomod]

RepoLists ==
  UNION { {[i \in 1..n |-> Repository(i, f[i])] : f \in [1..n -> Shapes]} :
          n \in 0..MaxRepos }

(***************************************************************************)
(* State                                                                   *)
(***************************************************************************)
VARIABLES
  token,      \* os.Getenv("GITHUB_TOKEN")
  listErr,    \* whether Repositories.ListByOrg fails
  repos,      \* what ListByOrg returns, with the answers to the later calls
  pc,         \* position of main: "start", "loop", "done", "fatal"
  idx,        \* position of the range loop over repos
  packages,   \* var packages []PackageInfo
  files,      \* the files on disk: path -> document
  dirs,       \* the directories on disk (the working directory is ".")
  run,        \* number of the current run of the generator
  emitted,    \* the calls of generateHTML in the current run
  prevFiles,  \* files at the end of the previous run
  prevDirs,   \* dirs at the end of the previous run
  manifest,   \* parseModuleName alone: the lines the argument is made of
  content,    \* parseModuleName alone: its argument
  result,     \* parseModuleName alone: its return value
  parsePc     \* parseModuleName alone: "idle", "call", "returned"

vars == <<token, listErr, repos, pc, idx, packages, files, dirs, run,
          emitted, prevFiles, prevDirs, manifest, content, result, parsePc>>

mainVars == <<token, listErr, repos, pc, idx, packages, files, dirs, run,
              emitted, prevFiles, prevDirs>>

parseVars == <<manifest, content, result, parsePc>>

NoFiles == [p \in {} |-> ""]

(***************************************************************************)
(* package os                                                              *)
(***************************************************************************)
\* path and its ancestors, shortest first excluded: as a set
PathPrefixes(path) ==
  {SubSeq(path, 1, i - 1) : i \in {j \in 2..Len(path) : CharAt(path, j) = "/"}}
    \cup {path}

\* os.MkdirAll(path, 0755): fails when path or an ancestor is a file
MkdirAll(fs, path) ==
  LET pre == PathPrefixes(path)
      blocked == {q \in pre : q \in DOMAIN fs.files}
  IN IF blocked = {}
     THEN [files |-> fs.files, dirs |-> fs.dirs \cup pre, err |-> FALSE]
     ELSE [files |-> fs.files,
           dirs |-> fs.dirs \cup {q \in pre : \A b \in blocked : Len(q) < Len(b)},
           err |-> TRUE]

\* os.Create(name) followed by the write of doc: the file is truncated;
\* fails when the parent directory is missing or name is a directory
CreateAndWrite(fs, name, doc) ==
  IF (Dir(name) # "." /\ Dir(name) \notin fs.dirs) \/ name \in fs.dirs
  THEN [files |-> fs.files, dirs |-> fs.dirs, err |-> TRUE]
  ELSE [files |-> [q \in DOMAIN fs.files \cup {name} |->
                     IF q = name THEN doc ELSE fs.files[q]],
        dirs |-> fs.dirs, err |-> FALSE]

(***************************************************************************)
(* The templates, main.go:131-142 and main.go:166-222: a document is the   *)
(* template's name and the values of the fields it prints, in order.       *)
(***************************************************************************)
\* variant: the page carries a mark of the run that generated it
RenderPageStamped(pkg) ==
  [template |-> "index", ImportPath |-> pkg.ImportPath, RepoURL |-> pkg.RepoURL,
   generated |-> run]

RenderPage(pkg) ==
  [template |-> "index", ImportPath |-> pkg.ImportPath, RepoURL |-> pkg.RepoURL]

RenderItem(pkg) ==
  [RepoURL |-> pkg.RepoURL, ImportPath |-> pkg.ImportPath,
   paragraphs |-> IF pkg.Description # ""
                  THEN <<pkg.Description, "go get " \o pkg.ImportPath>>
                  ELSE <<"go get " \o pkg.ImportPath>>]

RenderIndex(pkgs) ==
  [template |-> "main-index", items |-> [k \in DOMAIN pkgs |-> RenderItem(pkgs[k])]]

(***************************************************************************)
(* generateHTML, main.go:130-163                                           *)
(***************************************************************************)
\* the result carries, beside the disk and the error, the name given to
\* os.Create ("" when MkdirAll failed before it)
generateHTML(fs, pkg) ==
  LET relPath == TrimPrefix(pkg.ImportPath, baseDomain \o "/")
      dirPath == Join(<<"public", relPath>>)
      made == MkdirAll(fs, dirPath)
      name == Join(<<dirPath, "index.html">>)
      written == CreateAndWrite(made, name, RenderPage(pkg))
  IN IF made.err
     THEN [files |-> made.files, dirs |-> made.dirs, err |-> TRUE, file |-> ""]
     ELSE [files |-> written.files, dirs |-> written.dirs, err |-> written.err,
           file |-> name]

(***************************************************************************)
(* generateIndexHTML, main.go:165-235                                      *)
(***************************************************************************)
IndexPath == "public/index.html"

generateIndexHTML(fs, pkgs) == CreateAndWrite(fs, IndexPath, RenderIndex(pkgs))

(***************************************************************************)
(* main, main.go:28-118                                                    *)
(***************************************************************************)
PackageInfo(importPath, repo) ==
  [ImportPath |-> importPath, RepoURL |-> repo.HTMLURL,
   Description |-> repo.Description]

\* variant: the language compared without regard to case
IsGoAnyCase(repo) == repo.Language \in {"Go", "go", "GO", "gO"}

\* main.go:50
IsGo(repo) == repo.Language = "Go"

\* variant: the arguments of HasPrefix exchanged
UnderBasePackageSwapped(moduleName) == HasPrefix(basePackage, moduleName)

\* main.go:73
UnderBasePackage(moduleName) == HasPrefix(moduleName, basePackage)

\* variant: the entry's type is not looked at
IsGoFileAnyType(entry) == HasSuffix(entry.Name, ".go")

\* main.go:96
IsGoFile(entry) == entry.Type = "file" /\ HasSuffix(entry.Name, ".go")

\* main.go:95-106: the subPkgInfo values of the loop over contents, in order
RECURSIVE subPkgInfos(_, _, _)
subPkgInfos(repo, moduleName, contents) ==
  IF Len(contents) = 0 THEN <<>>
  ELSE LET entry == Head(contents)
           dir == Dir(entry.Path)
           rest == subPkgInfos(repo, moduleName, Tail(contents))
       IN IF IsGoFile(entry) /\ dir # "."
          THEN <<PackageInfo(Join(<<moduleName, dir>>), repo)>> \o rest
          ELSE rest

\* generateHTML called on each of pkgs in order, errors logged and ignored
\* (main.go:90-92, 107-109); log gets one line per call
RECURSIVE generateEach(_, _, _)
generateEach(st, pkgs, i) ==
  IF Len(pkgs) = 0 THEN st
  ELSE LET out == generateHTML([files |-> st.files, dirs |-> st.dirs], Head(pkgs))
       IN generateEach(
            [files |-> out.files, dirs |-> out.dirs,
             log |-> Append(st.log, [repo |-> i, pkg |-> Head(pkgs),
                                     file |-> out.file, err |-> out.err])],
            Tail(pkgs), i)

Repo == repos[idx]

InLoop == pc = "loop" /\ idx <= Len(repos)

NextRepo ==
  /\ idx' = idx + 1
  /\ UNCHANGED <<token, listErr, repos, pc, run, prevFiles, prevDirs, parseVars>>

SkipRepo == NextRepo /\ UNCHANGED <<packages, files, dirs, emitted>>

\* main.go:32-35
FatalNoToken ==
  /\ pc = "start"
  /\ token = ""
  /\ pc' = "fatal"
  /\ UNCHANGED <<token, listErr, repos, idx, packages, files, dirs, run,
                 emitted, prevFiles, prevDirs, parseVars>>

\* main.go:42-45
FatalListError ==
  /\ pc = "start"
  /\ token # ""
  /\ listErr
  /\ pc' = "fatal"
  /\ UNCHANGED <<token, listErr, repos, idx, packages, files, dirs, run,
                 emitted, prevFiles, prevDirs, parseVars>>

\* main.go:42-47
ListByOrg ==
  /\ pc = "start"
  /\ token # ""
  /\ ~listErr
  /\ IF run = 1 THEN repos' \in RepoLists ELSE repos' = repos
  /\ pc' = "loop"
  /\ idx' = 1
  /\ packages' = <<>>
  /\ UNCHANGED <<token, listErr, files, dirs, run, emitted,
                 prevFiles, prevDirs, parseVars>>

\* main.go:50-52
SkipNotGo ==
  /\ InLoop
  /\ ~IsGo(Repo)
  /\ SkipRepo

\* main.go:55-59
SkipContentsError ==
  /\ InLoop
  /\ IsGo(Repo)
  /\ Repo.listing.err
  /\ SkipRepo

\* main.go:62-65
SkipNoGoMod ==
  /\ InLoop
  /\ IsGo(Repo)
  /\ ~Repo.listing.err
  /\ Repo.gomod.err
  /\ SkipRepo

\* main.go:67-70
SkipDecodeError ==
  /\ InLoop
  /\ IsGo(Repo)
  /\ ~Repo.listing.err
  /\ ~Repo.gomod.err
  /\ Repo.gomod.decodeErr
  /\ SkipRepo

\* main.go:72-75
SkipOtherModule ==
  /\ InLoop
  /\ IsGo(Repo)
  /\ ~Repo.listing.err
  /\ ~Repo.gomod.err
  /\ ~Repo.gomod.decodeErr
  /\ ~UnderBasePackage(parseModuleName(Repo.gomod.text))
  /\ SkipRepo

\* main.go:77-111
ProcessModule ==
  /\ InLoop
  /\ IsGo(Repo)
  /\ ~Repo.listing.err
  /\ ~Repo.gomod.err
  /\ ~Repo.gomod.decodeErr
  /\ LET moduleName == parseModuleName(Repo.gomod.text)
         pkgInfo == PackageInfo(moduleName, Repo)
         out == generateEach(
                  [files |-> files, dirs |-> dirs, log |-> emitted],
                  <<pkgInfo>> \o subPkgInfos(Repo, moduleName, Repo.listing.contents),
                  idx)
     IN /\ UnderBasePackage(moduleName)
        /\ packages' = Append(packages, pkgInfo)
        /\ files' = out.files
        /\ dirs' = out.dirs
        /\ emitted' = out.log
  /\ NextRepo

\* main.go:114-118
WriteIndex ==
  /\ pc = "loop"
  /\ idx > Len(repos)
  /\ LET out == generateIndexHTML([files |-> files, dirs |-> dirs], packages)
     IN /\ files' = out.files
        /\ dirs' = out.dirs
  /\ pc' = "done"
  /\ UNCHANGED <<token, listErr, repos, idx, packages, run, emitted,
                 prevFiles, prevDirs, parseVars>>

\* the generator is started again (deploy.yml:22-24, once a day) on the disk
\* the run before left; the provider answers as it did in the first run
RunAgain ==
  /\ pc = "done"
  /\ run < MaxRuns
  /\ run' = run + 1
  /\ pc' = "start"
  /\ idx' = 1
  /\ packages' = <<>>
  /\ emitted' = <<>>
  /\ prevFiles' = files
  /\ prevDirs' = dirs
  /\ UNCHANGED <<token, listErr, repos, files, dirs, parseVars>>

Init ==
  /\ token \in {"", "ghp_token"}
  /\ listErr \in BOOLEAN
  /\ repos = <<>>
  /\ pc = "start"
  /\ idx = 1
  /\ packages = <<>>
  /\ files = NoFiles
  /\ dirs = {}
  /\ run = 1
  /\ emitted = <<>>
  /\ prevFiles = NoFiles
  /\ prevDirs = {}
  /\ manifest = <<>>
  /\ content = ""
  /\ result = ""
  /\ parsePc = "idle"

Next ==
  \/ FatalNoToken
  \/ FatalListError
  \/ ListByOrg
  \/ SkipNotGo
  \/ SkipContentsError
  \/ SkipNoGoMod
  \/ SkipDecodeError
  \/ SkipOtherModule
  \/ ProcessModule
  \/ WriteIndex
  \/ RunAgain

Spec == Init /\ [][Next]_vars

(***************************************************************************)
(* parseModuleName on its own: the argument is any text of at most         *)
(* MaxLines lines, main does not run.                                      *)
(***************************************************************************)
InitParse ==
  /\ manifest \in LineLists
  /\ content = TextOf(manifest)
  /\ result = ""
  /\ parsePc = "call"
  /\ token = ""
  /\ listErr = FALSE
  /\ repos = <<>>
  /\ pc = "off"
  /\ idx = 1
  /\ packages = <<>>
  /\ files = NoFiles
  /\ dirs = {}
  /\ run = 1
  /\ emitted = <<>>
  /\ prevFiles = NoFiles
  /\ prevDirs = {}

ParseCall ==
  /\ parsePc = "call"
  /\ result' = parseModuleName(content)
  /\ parsePc' = "returned"
  /\ UNCHANGED <<manifest, content, mainVars>>

NextParse == ParseCall

SpecParse == InitParse /\ [][NextParse]_vars

(***************************************************************************)
(* Properties                                                              *)
(***************************************************************************)
\* what the answers of the provider say about repository i, read from the
\* parts they were built from
Declared(i) == repos[i].gomod.declared

GoModUsable(i) ==
  /\ ~repos[i].gomod.err
  /\ ~repos[i].gomod.decodeErr
  /\ HasPrefix(Declared(i), basePackage)

\* the directories, other than the root, that hold a listed file named *.go
GoDirs(i) ==
  { e.inDir : e \in { repos[i].listing.contents[k] :
                        k \in { j \in DOMAIN repos[i].listing.contents :
                                  LET c == repos[i].listing.contents[j]
                                      n == Len(c.Name)
                                  IN /\ c.Type = "file"
                                     /\ n >= 3
                                     /\ SubSeq(c.Name, n - 2, n) = ".go"
                                     /\ c.inDir # <<>> } } }

EmittedBy(i) == { k \in DOMAIN emitted : emitted[k].repo = i }

EmittedPaths(i) == { emitted[k].pkg.ImportPath : k \in EmittedBy(i) }

\* C1: the package list never holds two records with the same importPath.
C1_UniqueImportPath ==
  \A i, j \in DOMAIN packages :
    packages[i].ImportPath = packages[j].ImportPath => i = j

\* C2: at the end of a run the records passed to the index page contain
\* every import path a page was emitted for, subdirectory paths included,
\* each with the repository's HTML URL.
C2_IndexListsEveryEmitted ==
  pc = "done" =>
    \A k \in DOMAIN emitted :
      \E j \in DOMAIN packages :
        /\ packages[j].ImportPath = emitted[k].pkg.ImportPath
        /\ packages[j].RepoURL = emitted[k].pkg.RepoURL

\* C3: every listed Go repository whose go.mod is fetched, decoded and
\* declares an identifier under the base package has its root record
\* inserted and rendered, whatever the other provider calls answer.
C3_GateIsLanguageAndPrefix ==
  pc = "done" =>
    \A i \in DOMAIN repos :
      (repos[i].Language = "Go" /\ GoModUsable(i)) =>
        /\ \E j \in DOMAIN packages :
             /\ packages[j].ImportPath = Declared(i)
             /\ packages[j].RepoURL = repos[i].HTMLURL
        /\ \E k \in EmittedBy(i) : emitted[k].pkg.ImportPath = Declared(i)

\* C4: every run with a credential and a successful repository listing ends
\* with the index document of its package list at public/index.html.
C4_IndexAlwaysWritten ==
  pc = "done" =>
    /\ IndexPath \in DOMAIN files
    /\ files[IndexPath] = RenderIndex(packages)

\* C5: parseModuleName returns the identifier of the first line of the form
\* "module X" (indented or not, trailing whitespace or not) with the
\* surrounding whitespace removed, and "" when the text has no such line.
C5_ParseModuleName ==
  parsePc = "returned" =>
    LET mods == { k \in DOMAIN manifest : manifest[k].isModule } IN
    IF mods = {} THEN result = ""
    ELSE \E k \in mods : /\ \A j \in mods : k <= j
                         /\ result = manifest[k].ident

C5_Witness ==
  /\ parsePc = "returned"
  /\ Len(manifest) >= 2
  /\ ~manifest[1].isModule
  /\ manifest[2].isModule
  /\ manifest[2].raw # "module " \o manifest[2].ident
  /\ HasPrefix(manifest[2].raw, " ")
  /\ result = manifest[2].ident

\* C6: a Go repository whose go.mod is missing, undecodable or declares an
\* identifier (the empty one included) outside the base package is passed
\* over in one step that changes neither the package list nor the disk nor
\* the emitted pages, and the loop goes on to the next repository.
C6_RejectedGoModSkipped ==
  [][ (InLoop /\ Repo.Language = "Go" /\ ~GoModUsable(idx)) =>
        /\ packages' = packages
        /\ files' = files
        /\ dirs' = dirs
        /\ emitted' = emitted
        /\ pc' = "loop"
        /\ idx' = idx + 1 ]_vars

C6_Witness ==
  /\ pc = "done"
  /\ Len(repos) = 2
  /\ repos[1].Language = "Go"
  /\ ~repos[1].listing.err
  /\ ~GoModUsable(1)
  /\ Declared(1) = ""
  /\ ~repos[1].gomod.err
  /\ ~repos[1].gomod.decodeErr
  /\ EmittedBy(1) = {}
  /\ EmittedBy(2) # {}
  /\ Len(packages) = 1

\* C7: a repository whose language is not exactly "Go" is passed over in one
\* step that inserts no record and writes no page, whatever its go.mod says.
C7_NotGoRejected ==
  [][ (InLoop /\ Repo.Language # "Go") =>
        /\ packages' = packages
        /\ files' = files
        /\ dirs' = dirs
        /\ emitted' = emitted
        /\ pc' = "loop"
        /\ idx' = idx + 1 ]_vars

C7_Witness ==
  /\ pc = "done"
  /\ Len(repos) >= 1
  /\ repos[1].Language = "go"
  /\ GoModUsable(1)
  /\ ~repos[1].listing.err
  /\ EmittedBy(1) = {}
  /\ packages = <<>>

\* C8: for a qualifying repository with identifier M, once the loop has
\* passed it, the import paths emitted besides M are exactly join(M, d) for
\* the directories d, other than the root, that hold a listed file named
\* *.go, and each such d has exactly one output document.
C8_SubdirectoryPaths ==
  \A i \in DOMAIN repos :
    (pc \in {"loop", "done"} /\ i < idx
       /\ repos[i].Language = "Go" /\ GoModUsable(i)) =>
      LET M == Declared(i)
          sub == { Join(<<M, JoinStrings(d, "/")>>) : d \in GoDirs(i) }
      IN /\ EmittedPaths(i) \ {M} = sub
         /\ Cardinality(sub) = Cardinality(GoDirs(i))
         /\ \A q \in sub :
              LET docs == { emitted[k].file :
                              k \in { j \in EmittedBy(i) :
                                        emitted[j].pkg.ImportPath = q } }
              IN /\ Cardinality(docs) = 1
                 /\ docs \subseteq DOMAIN files
         /\ Cardinality({ emitted[k].file :
                            k \in { j \in EmittedBy(i) :
                                      emitted[j].pkg.ImportPath # M } })
              = Cardinality(GoDirs(i))

C8_Witness ==
  /\ pc = "done"
  /\ \E i \in DOMAIN repos :
       /\ Declared(i) = "pkg.blksails.net/foo"
       /\ repos[i].listing.contents = NestedListing
       /\ EmittedPaths(i) = {"pkg.blksails.net/foo", "pkg.blksails.net/foo/a",
                             "pkg.blksails.net/foo/a/b"}
       /\ Cardinality(EmittedBy(i)) = 4
       /\ "public/foo/a/index.html" \in DOMAIN files

\* C9: a second run with the same answers from the provider, started on the
\* disk the first run left, ends with the disk as the first run left it.
C9_RerunLeavesOutputUnchanged ==
  (pc = "done" /\ run > 1) => (files = prevFiles /\ dirs = prevDirs)

C9_Witness ==
  /\ pc = "done"
  /\ run = 2
  /\ Cardinality(DOMAIN files) >= 3
  /\ IndexPath \in DOMAIN files

\* C10: at the end of a run, records with different import paths were
\* written to different files, no record was written to the path of the
\* index document, and every emitted record's page is at its path.
C10_PagePathsOneToOne ==
  pc = "done" =>
    /\ \A k, j \in DOMAIN emitted :
         emitted[k].pkg.ImportPath # emitted[j].pkg.ImportPath
           => emitted[k].file # emitted[j].file
    /\ \A k \in DOMAIN emitted :
         /\ emitted[k].file # IndexPath
         /\ emitted[k].file \in DOMAIN files
         /\ \E j \in DOMAIN emitted :
              /\ emitted[j].pkg.ImportPath = emitted[k].pkg.ImportPath
              /\ files[emitted[k].file] = RenderPage(emitted[j].pkg)

====
